---- MODULE Spec2Model ----
(***************************************************************************)
(* Model of the omnai model-configuration registry                         *)
(* (src/src/omnai/configs.py).                                             *)
(*                                                                         *)
(* Strings whose characters matter (model identifiers, display names) are  *)
(* sequences of one-character strings, so that lower(), substring, prefix  *)
(* and slicing are computed character by character as Python does.         *)
(* A Python dict is a sequence of [key, value] items in insertion order.   *)
(* A config dict is a TLA+ record whose DOMAIN is the set of keys present, *)
(* so a partial record is a record with fewer fields.  Floats of the data  *)
(* table are fixed-point hundredths.                                       *)
(***************************************************************************)
EXTENDS Integers, Sequences, FiniteSets, TLC

VARIABLES CUSTOM_CONFIGS, last

vars == <<CUSTOM_CONFIGS, last>>

-----------------------------------------------------------------------------
(* Python values                                                           *)

\* None where a str is expected (Optional[str])
None ==
    "None"

\* None where a dict is expected (Optional[dict])
NoneConfig ==
    [py_none |-> TRUE]

\* the engine test applied whether or not an engine was given
Truthy_always(s) ==
    TRUE

\* truthiness of an Optional[str]: `if engine`
Truthy(s) ==
    s # None /\ s # ""

Min(a, b) ==
    IF a <= b THEN a ELSE b

Max(a, b) ==
    IF a >= b THEN a ELSE b

-----------------------------------------------------------------------------
(* str operations                                                          *)

UpperChars ==
    <<"A","B","C","D","E","F","G","H","I","J","K","L","M",
      "N","O","P","Q","R","S","T","U","V","W","X","Y","Z">>

LowerChars ==
    <<"a","b","c","d","e","f","g","h","i","j","k","l","m",
      "n","o","p","q","r","s","t","u","v","w","x","y","z">>

\* the lowercase of every uppercase letter
LowerMap ==
    [c \in {UpperChars[i] : i \in 1..Len(UpperChars)} |->
        LowerChars[CHOOSE i \in 1..Len(UpperChars) : UpperChars[i] = c]]

LowerChar(c) ==
    IF c \in DOMAIN LowerMap THEN LowerMap[c] ELSE c

\* the string left in the case it was given
lower_identity(s) ==
    s

\* s.lower()
lower(s) ==
    [i \in 1..Len(s) |-> LowerChar(s[i])]

\* sub in s
contains(sub, s) ==
    \E i \in 0..(Len(s) - Len(sub)) : SubSeq(s, i + 1, i + Len(sub)) = sub

\* s.startswith(p)
startswith(s, p) ==
    Len(p) <= Len(s) /\ SubSeq(s, 1, Len(p)) = p

\* s[:n], n possibly negative, for str and list alike
SliceTo(s, n) ==
    IF n >= 0 THEN SubSeq(s, 1, Min(n, Len(s)))
    ELSE SubSeq(s, 1, Max(Len(s) + n, 0))

-----------------------------------------------------------------------------
(* dict operations                                                         *)

\* k in d
HasKey(d, k) ==
    \E i \in 1..Len(d) : d[i].key = k

\* d[k]
Lookup(d, k) ==
    d[CHOOSE i \in 1..Len(d) : d[i].key = k].value

\* the dict rebuilt with the one entry
DictSet_drops_others(d, k, v) ==
    <<[key |-> k, value |-> v]>>

\* d[k] = v  (an existing key keeps its position)
DictSet(d, k, v) ==
    IF HasKey(d, k)
    THEN [i \in 1..Len(d) |-> IF d[i].key = k THEN [key |-> k, value |-> v] ELSE d[i]]
    ELSE Append(d, [key |-> k, value |-> v])

\* for k, v in b.items(): a[k] = v
RECURSIVE DictUpdate(_, _)
DictUpdate(a, b) ==
    IF b = <<>> THEN a
    ELSE DictUpdate(DictSet(a, Head(b).key, Head(b).value), Tail(b))

\* config.get(k)  /  config.get(k, dflt)
GetOr(config, k, dflt) ==
    IF k \in DOMAIN config THEN config[k] ELSE dflt

\* the merge with the defaults winning over the caller's fields
MergeRec_defaults_win(a, b) ==
    [k \in DOMAIN a \cup DOMAIN b |-> IF k \in DOMAIN a THEN a[k] ELSE b[k]]

\* {**a, **b} for config records
MergeRec(a, b) ==
    [k \in DOMAIN a \cup DOMAIN b |-> IF k \in DOMAIN b THEN b[k] ELSE a[k]]

\* c = config.copy(); c["id"] = model_id
WithId(config, model_id) ==
    [k \in DOMAIN config \cup {"id"} |-> IF k = "id" THEN model_id ELSE config[k]]

-----------------------------------------------------------------------------
(* Built-in model table (a selection of MODEL_CONFIGS, in source order)    *)

\* "claude-sonnet-4-20250514"
M_claude_sonnet_4_20250514 ==
    <<"c","l","a","u","d","e","-","s","o","n","n","e","t","-","4","-","2","0","2","5","0","5","1","4">>
\* "gpt-4o"
M_gpt_4o ==
    <<"g","p","t","-","4","o">>
\* "o1"
M_o1 ==
    <<"o","1">>
\* "minimax-m2.1"
M_minimax_m2_1 ==
    <<"m","i","n","i","m","a","x","-","m","2",".","1">>
\* "minimax-m2"
M_minimax_m2 ==
    <<"m","i","n","i","m","a","x","-","m","2">>
\* "minimax-m2.1-api"
M_minimax_m2_1_api ==
    <<"m","i","n","i","m","a","x","-","m","2",".","1","-","a","p","i">>
\* "deepseek-v3"
M_deepseek_v3 ==
    <<"d","e","e","p","s","e","e","k","-","v","3">>
\* "qwen2.5-coder:7b"
M_qwen2_5_coder_7b ==
    <<"q","w","e","n","2",".","5","-","c","o","d","e","r",":","7","b">>
\* "mistral"
M_mistral ==
    <<"m","i","s","t","r","a","l">>

MODEL_CONFIGS ==
    <<
      [key |-> M_claude_sonnet_4_20250514,
       value |-> [engine |-> "claude", model |-> "claude-sonnet-4-20250514",
                  full_name |-> <<"C","l","a","u","d","e"," ","S","o","n","n","e","t"," ","4"," ","(","M","a","y"," ","2","0","2","5",")">>,
                  context_window |-> 200000, default_temperature |-> 70,
                  cost |-> "medium", cost_per_mtok |-> [input |-> 300, output |-> 1500],
                  free_tier |-> TRUE, speed |-> "fast", quality |-> "excellent",
                  best_for |-> <<"coding", "analysis", "reasoning", "general">>,
                  notes |-> "Best balance of speed, quality, and cost. Recommended default."]],
      [key |-> M_gpt_4o,
       value |-> [engine |-> "opencode", model |-> "gpt-4o",
                  full_name |-> <<"G","P","T","-","4","o">>,
                  context_window |-> 128000, default_temperature |-> 100,
                  cost |-> "medium", cost_per_mtok |-> [input |-> 250, output |-> 1000],
                  free_tier |-> FALSE, speed |-> "fast", quality |-> "excellent",
                  best_for |-> <<"coding", "multimodal", "general", "reasoning">>,
                  notes |-> "OpenAI's flagship model. Optimized for speed and cost."]],
      [key |-> M_o1,
       value |-> [engine |-> "opencode", model |-> "o1",
                  full_name |-> <<"O","p","e","n","A","I"," ","o","1">>,
                  context_window |-> 200000, default_temperature |-> 100,
                  cost |-> "expensive", cost_per_mtok |-> [input |-> 1500, output |-> 6000],
                  free_tier |-> FALSE, speed |-> "slow", quality |-> "excellent",
                  best_for |-> <<"complex-reasoning", "production", "high-stakes">>,
                  notes |-> "Production reasoning model with extended context."]],
      [key |-> M_minimax_m2_1,
       value |-> [engine |-> "opencode", model |-> "minimax-m2.1",
                  full_name |-> <<"M","i","n","i","M","a","x"," ","M","2",".","1">>,
                  context_window |-> 32000, default_temperature |-> 100,
                  cost |-> "cheap", cost_per_mtok |-> [input |-> 10, output |-> 10],
                  free_tier |-> FALSE, speed |-> "fast", quality |-> "good",
                  best_for |-> <<"general", "cost-efficiency">>,
                  notes |-> "MiniMax's latest model. Very cost-efficient."]],
      [key |-> M_minimax_m2,
       value |-> [engine |-> "opencode", model |-> "minimax/MiniMax-M2",
                  full_name |-> <<"M","i","n","i","M","a","x"," ","M","2"," ","(","A","P","I",")">>,
                  context_window |-> 32000, default_temperature |-> 100,
                  cost |-> "cheap", cost_per_mtok |-> [input |-> 30, output |-> 120],
                  free_tier |-> FALSE, speed |-> "fast", quality |-> "good",
                  best_for |-> <<"general", "cost-efficiency">>,
                  notes |-> "MiniMax M2 via private API key. Use --model minimax/MiniMax-M2."]],
      [key |-> M_minimax_m2_1_api,
       value |-> [engine |-> "opencode", model |-> "minimax/MiniMax-M2.1",
                  full_name |-> <<"M","i","n","i","M","a","x"," ","M","2",".","1"," ","(","A","P","I",")">>,
                  context_window |-> 32000, default_temperature |-> 100,
                  cost |-> "cheap", cost_per_mtok |-> [input |-> 30, output |-> 120],
                  free_tier |-> FALSE, speed |-> "fast", quality |-> "good",
                  best_for |-> <<"general", "cost-efficiency">>,
                  notes |-> "MiniMax M2.1 via private API key. Use --model minimax/MiniMax-M2.1."]],
      [key |-> M_deepseek_v3,
       value |-> [engine |-> "codex", model |-> "deepseek-v3",
                  full_name |-> <<"D","e","e","p","S","e","e","k"," ","V","3"," ","(","v","i","a"," ","C","o","d","e","x",")">>,
                  context_window |-> 64000, default_temperature |-> 100,
                  cost |-> "cheap", cost_per_mtok |-> [input |-> 14, output |-> 28],
                  free_tier |-> FALSE, speed |-> "fast", quality |-> "excellent",
                  best_for |-> <<"coding", "reasoning">>,
                  notes |-> "DeepSeek V3 via Codex CLI. Excellent for coding."]],
      [key |-> M_qwen2_5_coder_7b,
       value |-> [engine |-> "ollama", model |-> "qwen2.5-coder:7b",
                  full_name |-> <<"Q","w","e","n"," ","2",".","5"," ","C","o","d","e","r"," ","7","B">>,
                  context_window |-> 32768, default_temperature |-> 20,
                  cost |-> "free", cost_per_mtok |-> [input |-> 0, output |-> 0],
                  free_tier |-> TRUE, speed |-> "medium", quality |-> "good",
                  best_for |-> <<"coding", "offline-work", "privacy", "local-dev">>,
                  notes |-> "Free local inference. Excellent for coding. Requires ~6GB RAM."]],
      [key |-> M_mistral,
       value |-> [engine |-> "ollama", model |-> "mistral",
                  full_name |-> <<"M","i","s","t","r","a","l"," ","7","B">>,
                  context_window |-> 32768, default_temperature |-> 70,
                  cost |-> "free", cost_per_mtok |-> [input |-> 0, output |-> 0],
                  free_tier |-> TRUE, speed |-> "fast", quality |-> "good",
                  best_for |-> <<"general", "lightweight">>,
                  notes |-> "Mistral's 7B model. Good general performance. Requires ~5GB RAM."]]
    >>

-----------------------------------------------------------------------------
(* Engine table                                                            *)

ENGINE_CONFIGS ==
    <<
      [key |-> "claude",
       value |-> [name |-> "Claude CLI",
                  description |-> "Anthropic's Claude via CLI tool",
                  type |-> "cloud",
                  requires_auth |-> TRUE,
                  supports_streaming |-> TRUE,
                  default_model |-> M_claude_sonnet_4_20250514,
                  aliases |-> <<"claude-code">>]],
      [key |-> "opencode",
       value |-> [name |-> "OpenCode",
                  description |-> "Multi-provider AI tool (OpenAI, DeepSeek, MiniMax)",
                  type |-> "cloud",
                  requires_auth |-> TRUE,
                  supports_streaming |-> TRUE,
                  default_model |-> M_gpt_4o]],
      [key |-> "codex",
       value |-> [name |-> "Codex CLI",
                  description |-> "OpenAI Codex CLI (supports multiple providers)",
                  type |-> "cloud",
                  requires_auth |-> TRUE,
                  supports_streaming |-> TRUE,
                  default_model |-> M_deepseek_v3]],
      [key |-> "ollama",
       value |-> [name |-> "Ollama",
                  description |-> "Local inference with open models",
                  type |-> "local",
                  requires_auth |-> FALSE,
                  supports_streaming |-> TRUE,
                  default_model |-> M_qwen2_5_coder_7b]],
      [key |-> "aider",
       value |-> [name |-> "Aider",
                  description |-> "AI pair programming assistant",
                  type |-> "cloud",
                  requires_auth |-> TRUE,
                  supports_streaming |-> TRUE,
                  default_model |-> None]],
      [key |-> "qwen",
       value |-> [name |-> "Qwen-Code CLI",
                  description |-> "Qwen AI coding assistant",
                  type |-> "cloud",
                  requires_auth |-> TRUE,
                  supports_streaming |-> TRUE,
                  default_model |-> None]],
      [key |-> "cursor",
       value |-> [name |-> "Cursor Agent",
                  description |-> "Cursor AI editor agent",
                  type |-> "cloud",
                  requires_auth |-> TRUE,
                  supports_streaming |-> TRUE,
                  default_model |-> None]],
      [key |-> "goose",
       value |-> [name |-> "Goose CLI",
                  description |-> "Block's Goose AI assistant",
                  type |-> "cloud",
                  requires_auth |-> TRUE,
                  supports_streaming |-> TRUE,
                  default_model |-> None]],
      [key |-> "copilot",
       value |-> [name |-> "GitHub Copilot CLI",
                  description |-> "GitHub Copilot command-line interface",
                  type |-> "cloud",
                  requires_auth |-> TRUE,
                  supports_streaming |-> TRUE,
                  default_model |-> None]]
    >>

-----------------------------------------------------------------------------
(* Query functions                                                         *)

\* get_config falling back to a fabricated record for an unknown id
get_config_fabricating(model_id) ==
    IF HasKey(MODEL_CONFIGS, model_id)
    THEN WithId(Lookup(MODEL_CONFIGS, model_id), model_id)
    ELSE IF HasKey(CUSTOM_CONFIGS, model_id)
    THEN WithId(Lookup(CUSTOM_CONFIGS, model_id), model_id)
    ELSE WithId([cost |-> "medium", speed |-> "medium", quality |-> "good"], model_id)

\* get_config checking the custom table before the built-in table
get_config_custom_first(model_id) ==
    IF HasKey(CUSTOM_CONFIGS, model_id)
    THEN WithId(Lookup(CUSTOM_CONFIGS, model_id), model_id)
    ELSE IF HasKey(MODEL_CONFIGS, model_id)
    THEN WithId(Lookup(MODEL_CONFIGS, model_id), model_id)
    ELSE NoneConfig

get_config(model_id) ==
    IF HasKey(MODEL_CONFIGS, model_id)
    THEN WithId(Lookup(MODEL_CONFIGS, model_id), model_id)
    ELSE IF HasKey(CUSTOM_CONFIGS, model_id)
    THEN WithId(Lookup(CUSTOM_CONFIGS, model_id), model_id)
    ELSE NoneConfig

\* the items of d annotated with their id
Annotated(items) ==
    [i \in 1..Len(items) |-> WithId(items[i].value, items[i].key)]

\* the listing of the built-in table alone
list_configs_builtin_only(engine) ==
    Annotated(SelectSeq(MODEL_CONFIGS,
                LAMBDA it : engine = None \/ it.value["engine"] = engine))

list_configs(engine) ==
    Annotated(SelectSeq(MODEL_CONFIGS,
                LAMBDA it : engine = None \/ it.value["engine"] = engine))
    \o
    Annotated(SelectSeq(CUSTOM_CONFIGS,
                LAMBDA it : engine = None \/ GetOr(it.value, "engine", None) = engine))

\* Python values of the criteria of find_configs, tagged with their type
PyNone ==
    [type |-> "NoneType"]

PyStr(s) ==
    [type |-> "str", str |-> s]

PyList(l) ==
    [type |-> "list", items |-> l]

PyBool(b) ==
    [type |-> "bool", bool |-> b]

normalize(value) ==
    IF value = PyNone THEN PyNone
    ELSE IF value.type = "str" THEN PyList(<<value.str>>)
    ELSE value

\* truthiness of a normalized criterion: `if cost_list`
ListTruthy(l) ==
    l # PyNone /\ Len(l.items) > 0

\* x in l
InList(x, l) ==
    \E i \in 1..Len(l) : l[i] = x

\* the per-record test of find_configs: FALSE where the loop `continue`s
FindKeeps(config, cost_list, speed_list, quality_list, best_for_list, free_tier, engine_list) ==
    /\ ~(ListTruthy(cost_list) /\ ~InList(GetOr(config, "cost", None), cost_list.items))
    /\ ~(ListTruthy(speed_list) /\ ~InList(GetOr(config, "speed", None), speed_list.items))
    /\ ~(ListTruthy(quality_list) /\ ~InList(GetOr(config, "quality", None), quality_list.items))
    /\ ~(free_tier # PyNone /\ GetOr(config, "free_tier", None) # free_tier.bool)
    /\ ~(ListTruthy(engine_list) /\ ~InList(GetOr(config, "engine", None), engine_list.items))
    /\ ~(ListTruthy(best_for_list)
         /\ ~(\E i \in 1..Len(best_for_list.items) :
                InList(best_for_list.items[i], GetOr(config, "best_for", <<>>))))

find_configs(cost, speed, quality, best_for, free_tier, engine) ==
    Annotated(SelectSeq(DictUpdate(MODEL_CONFIGS, CUSTOM_CONFIGS),
                LAMBDA it : FindKeeps(it.value, normalize(cost), normalize(speed),
                                      normalize(quality), normalize(best_for),
                                      free_tier, normalize(engine))))

\* the lookup without the alias step
get_default_model_no_alias(engine) ==
    IF HasKey(ENGINE_CONFIGS, engine)
    THEN GetOr(Lookup(ENGINE_CONFIGS, engine), "default_model", None)
    ELSE None

get_default_model(engine) ==
    LET canonical == IF engine = "claude-code" THEN "claude" ELSE engine
    IN  IF HasKey(ENGINE_CONFIGS, canonical)
        THEN GetOr(Lookup(ENGINE_CONFIGS, canonical), "default_model", None)
        ELSE None

list_engines ==
    Annotated(ENGINE_CONFIGS)

-----------------------------------------------------------------------------
(* Validation functions                                                    *)

DefaultLimit ==
    5

\* the loop computing common_len: length of the common leading run
RECURSIVE CommonLen(_, _)
CommonLen(a, b) ==
    IF a = <<>> \/ b = <<>> THEN 0
    ELSE IF Head(a) = Head(b) THEN 1 + CommonLen(Tail(a), Tail(b))
    ELSE 0

\* the value of `matched` for one candidate
Matched(search_lower, mid_lower) ==
    IF contains(search_lower, mid_lower) \/ contains(mid_lower, search_lower)
    THEN TRUE
    ELSE IF \/ startswith(mid_lower, search_lower)
            \/ startswith(search_lower,
                          IF Len(search_lower) > 3
                          THEN SliceTo(mid_lower, Len(search_lower) \div 2)
                          ELSE <<>>)
    THEN TRUE
    ELSE CommonLen(search_lower, mid_lower) >= 5

\* the summary appended to `similar`
Summary(mid, config) ==
    [id |-> mid,
     full_name |-> GetOr(config, "full_name", mid),
     engine |-> GetOr(config, "engine", None),
     cost |-> GetOr(config, "cost", "unknown"),
     speed |-> GetOr(config, "speed", "unknown"),
     quality |-> GetOr(config, "quality", "unknown"),
     model |-> GetOr(config, "model", None)]

\* `similar` collected without the engine test
SimilarAll_unfiltered(model_id, engine) ==
    LET search_lower == lower(model_id)
        all_configs == DictUpdate(MODEL_CONFIGS, CUSTOM_CONFIGS)
        kept == SelectSeq(all_configs,
                    LAMBDA it : Matched(search_lower, lower(it.key)))
    IN  [i \in 1..Len(kept) |-> Summary(kept[i].key, kept[i].value)]

\* `similar` before truncation
SimilarAll(model_id, engine) ==
    LET search_lower == lower(model_id)
        all_configs == DictUpdate(MODEL_CONFIGS, CUSTOM_CONFIGS)
        kept == SelectSeq(all_configs,
                    LAMBDA it : /\ ~(Truthy(engine) /\ GetOr(it.value, "engine", None) # engine)
                                /\ Matched(search_lower, lower(it.key)))
    IN  [i \in 1..Len(kept) |-> Summary(kept[i].key, kept[i].value)]

find_similar_models(model_id, engine, limit) ==
    SliceTo(SimilarAll(model_id, engine), limit)

\* outcomes of a call
Return(v) ==
    [outcome |-> "return", value |-> v]

Raise(exc, msg) ==
    [outcome |-> "raise", exc |-> exc, msg |-> msg]

\* list_configs reading config["engine"] of the custom items too
list_configs_call_subscript(engine) ==
    IF engine # None
       /\ \/ \E i \in 1..Len(MODEL_CONFIGS) : "engine" \notin DOMAIN MODEL_CONFIGS[i].value
          \/ \E i \in 1..Len(CUSTOM_CONFIGS) : "engine" \notin DOMAIN CUSTOM_CONFIGS[i].value
    THEN Raise("KeyError", [key |-> "engine"])
    ELSE Return(list_configs(engine))

\* list_configs as a call: config["engine"] of a built-in item raises
\* KeyError where the key is missing, config.get("engine") of a custom
\* item does not
list_configs_call(engine) ==
    IF engine # None
       /\ \E i \in 1..Len(MODEL_CONFIGS) : "engine" \notin DOMAIN MODEL_CONFIGS[i].value
    THEN Raise("KeyError", [key |-> "engine"])
    ELSE Return(list_configs(engine))

\* truthiness of an Optional[str] id: `if model_id`
TruthyId(model_id) ==
    IF model_id = None THEN FALSE ELSE model_id # <<>>

\* one dict of the listing mode of get_model_suggestions
ListedSummary(c) ==
    [id |-> c["id"],
     full_name |-> GetOr(c, "full_name", c["id"]),
     engine |-> c["engine"],
     cost |-> GetOr(c, "cost", "unknown"),
     speed |-> GetOr(c, "speed", "unknown"),
     quality |-> GetOr(c, "quality", "unknown")]

get_model_suggestions(model_id, engine, limit) ==
    IF TruthyId(model_id)
    THEN Return(find_similar_models(model_id, engine, limit))
    ELSE LET configs == list_configs_call(engine)
             shown == SliceTo(configs.value, limit)
         IN  IF configs.outcome # "return" THEN configs
             ELSE IF \E k \in 1..Len(shown) : "engine" \notin DOMAIN shown[k]
             THEN Raise("KeyError", [key |-> "engine"])
             ELSE Return([k \in 1..Len(shown) |-> ListedSummary(shown[k])])

\* one line of the suggestion text: "  - {id} ({full_name}) - {engine} - {cost}"
SuggestionLine(m) ==
    [id |-> m.id, full_name |-> m.full_name, engine |-> m.engine, cost |-> m.cost]

\* f" for engine '{engine}'" if engine else ""
EngineMsg(engine) ==
    IF Truthy(engine) THEN engine ELSE ""

\* validate_model asking for suggestions without the engine filter
validate_model_unfiltered(model_id, engine) ==
    LET config == get_config(model_id)
        similar == find_similar_models(model_id, None, DefaultLimit)
    IN  IF config # NoneConfig
        THEN IF Truthy(engine) /\ GetOr(config, "engine", None) # engine
             THEN IF "engine" \in DOMAIN config
                  THEN Raise("ValueError",
                             [text |-> "exists but is for engine",
                              model_id |-> model_id,
                              actual |-> config["engine"],
                              requested |-> engine])
                  ELSE Raise("KeyError", [key |-> "engine"])
             ELSE Return(config)
        ELSE IF similar # <<>>
        THEN Raise("ValueError",
                   [text |-> "not found. Did you mean one of these?",
                    model_id |-> model_id,
                    engine_msg |-> EngineMsg(engine),
                    suggestions |-> [i \in 1..Len(similar) |-> SuggestionLine(similar[i])]])
        ELSE Raise("ValueError",
                   [text |-> "not found. List available models",
                    model_id |-> model_id,
                    engine_msg |-> EngineMsg(engine),
                    engine_filter |-> EngineMsg(engine)])

validate_model(model_id, engine) ==
    LET config == get_config(model_id)
        similar == find_similar_models(model_id, engine, DefaultLimit)
    IN  IF config # NoneConfig
        THEN IF Truthy(engine) /\ GetOr(config, "engine", None) # engine
             THEN IF "engine" \in DOMAIN config
                  THEN Raise("ValueError",
                             [text |-> "exists but is for engine",
                              model_id |-> model_id,
                              actual |-> config["engine"],
                              requested |-> engine])
                  ELSE Raise("KeyError", [key |-> "engine"])
             ELSE Return(config)
        ELSE IF similar # <<>>
        THEN Raise("ValueError",
                   [text |-> "not found. Did you mean one of these?",
                    model_id |-> model_id,
                    engine_msg |-> EngineMsg(engine),
                    suggestions |-> [i \in 1..Len(similar) |-> SuggestionLine(similar[i])]])
        ELSE Raise("ValueError",
                   [text |-> "not found. List available models",
                    model_id |-> model_id,
                    engine_msg |-> EngineMsg(engine),
                    engine_filter |-> EngineMsg(engine)])

-----------------------------------------------------------------------------
(* Extension API                                                           *)

\* the defaults of full_config
ConfigDefaults ==
    [cost |-> "medium", speed |-> "medium", quality |-> "good",
     best_for |-> <<>>, free_tier |-> FALSE,
     cost_per_mtok |-> [input |-> 0, output |-> 0], notes |-> ""]

full_config(config) ==
    MergeRec(ConfigDefaults, config)

\* TRUE where register_config returns False at its first statement
RegisterRefuses(model_id, override) ==
    HasKey(CUSTOM_CONFIGS, model_id) /\ ~override

list_custom_configs ==
    Annotated(CUSTOM_CONFIGS)

-----------------------------------------------------------------------------
(* Bounds and inputs                                                       *)

\* most entries the custom registry holds
MaxCustom ==
    2

\* "minimax-m3"
Q_minimax_m3 ==
    <<"m","i","n","i","m","a","x","-","m","3">>

\* "XYZ"
Q_XYZ ==
    <<"X","Y","Z">>

\* "mistx"
Q_mistx ==
    <<"m","i","s","t","x">>

\* "unknown-xyz"
Q_unknown_xyz ==
    <<"u","n","k","n","o","w","n","-","x","y","z">>

RegisterIds ==
    {M_gpt_4o, Q_minimax_m3, Q_XYZ}

QueryIds ==
    RegisterIds \cup {Q_mistx, Q_unknown_xyz}

RegisterConfigs ==
    { [engine |-> "ollama", model |-> "test:1"],
      [model |-> "test:2"],
      [engine |-> "opencode", model |-> "test:latest", cost |-> "free",
       speed |-> "fast", quality |-> "good", best_for |-> <<"testing", "coding">>] }

EngineArgs ==
    {None, "", "opencode", "ollama"}

LimitArgs ==
    {DefaultLimit, 2}

\* find_configs() with no criteria
NoCriteria ==
    [cost |-> PyNone, speed |-> PyNone, quality |-> PyNone,
     best_for |-> PyNone, free_tier |-> PyNone, engine |-> PyNone]

\* criteria of find_configs: each dimension alone as a single value, a list
\* and an empty list, and the combinations of the tests
FindArgs ==
    { NoCriteria,
      [NoCriteria EXCEPT !.cost = PyStr("free")],
      [NoCriteria EXCEPT !.cost = PyList(<<"free", "cheap">>)],
      [NoCriteria EXCEPT !.cost = PyList(<<>>)],
      [NoCriteria EXCEPT !.speed = PyStr("fast")],
      [NoCriteria EXCEPT !.quality = PyList(<<"excellent", "good">>)],
      [NoCriteria EXCEPT !.best_for = PyStr("coding")],
      [NoCriteria EXCEPT !.best_for = PyList(<<"testing", "research">>)],
      [NoCriteria EXCEPT !.free_tier = PyBool(TRUE)],
      [NoCriteria EXCEPT !.free_tier = PyBool(FALSE)],
      [NoCriteria EXCEPT !.engine = PyStr("ollama")],
      [NoCriteria EXCEPT !.engine = PyList(<<"opencode", "codex">>)],
      [NoCriteria EXCEPT !.cost = PyStr("free"), !.best_for = PyStr("coding"),
                         !.quality = PyList(<<"excellent", "good">>)],
      [NoCriteria EXCEPT !.cost = PyStr("expensive"), !.speed = PyStr("very-fast")],
      [NoCriteria EXCEPT !.engine = PyList(<<>>), !.free_tier = PyBool(FALSE)] }

DefaultEngineArgs ==
    {"claude", "claude-code", "aider", "nonexistent"}

\* "xyz"
Q_xyz ==
    <<"x","y","z">>

\* "MINIMAX-M3"
Q_MINIMAX_M3 ==
    <<"M","I","N","I","M","A","X","-","M","3">>

\* "UNKNOWN-XYZ"
Q_UNKNOWN_XYZ ==
    <<"U","N","K","N","O","W","N","-","X","Y","Z">>

\* inputs of the suggestion layer taken alone
SimilarRegisterIds ==
    {M_gpt_4o, Q_minimax_m3, Q_XYZ, Q_xyz}

SimilarConfigs ==
    { [engine |-> "opencode", model |-> "test:1"],
      [model |-> "test:2"] }

SimilarQueryIds ==
    {Q_minimax_m3, Q_MINIMAX_M3, Q_XYZ, Q_xyz, Q_unknown_xyz, Q_UNKNOWN_XYZ}

WideLimitArgs ==
    {DefaultLimit, 2, -1}

-----------------------------------------------------------------------------
(* The registry as a state machine: `last` is the latest call              *)

Call(op, args, result) ==
    [op |-> op, args |-> args, result |-> result]

Init ==
    /\ CUSTOM_CONFIGS = <<>>
    /\ last = Call("import", [module |-> "omnai"], Return(TRUE))

register_config(model_id, config, override) ==
    /\ HasKey(CUSTOM_CONFIGS, model_id) \/ Len(CUSTOM_CONFIGS) < MaxCustom
    /\ IF RegisterRefuses(model_id, override)
       THEN /\ UNCHANGED CUSTOM_CONFIGS
            /\ last' = Call("register_config",
                            [model_id |-> model_id, config |-> config, override |-> override],
                            Return(FALSE))
       ELSE /\ CUSTOM_CONFIGS' = DictSet(CUSTOM_CONFIGS, model_id, full_config(config))
            /\ last' = Call("register_config",
                            [model_id |-> model_id, config |-> config, override |-> override],
                            Return(TRUE))

Register ==
    \E model_id \in RegisterIds, config \in RegisterConfigs, override \in BOOLEAN :
        register_config(model_id, config, override)

Get ==
    \E model_id \in QueryIds :
        /\ last' = Call("get_config", [model_id |-> model_id], Return(get_config(model_id)))
        /\ UNCHANGED CUSTOM_CONFIGS

List ==
    \E engine \in EngineArgs :
        /\ last' = Call("list_configs", [engine |-> engine], list_configs_call(engine))
        /\ UNCHANGED CUSTOM_CONFIGS

Find ==
    \E c \in FindArgs :
        /\ last' = Call("find_configs", c,
                        Return(find_configs(c.cost, c.speed, c.quality,
                                            c.best_for, c.free_tier, c.engine)))
        /\ UNCHANGED CUSTOM_CONFIGS

FindSimilar ==
    \E model_id \in QueryIds, engine \in EngineArgs, limit \in LimitArgs :
        /\ last' = Call("find_similar_models",
                        [model_id |-> model_id, engine |-> engine, limit |-> limit],
                        Return(find_similar_models(model_id, engine, limit)))
        /\ UNCHANGED CUSTOM_CONFIGS

Validate ==
    \E model_id \in QueryIds, engine \in EngineArgs :
        /\ last' = Call("validate_model", [model_id |-> model_id, engine |-> engine],
                        validate_model(model_id, engine))
        /\ UNCHANGED CUSTOM_CONFIGS

GetDefault ==
    \E engine \in DefaultEngineArgs :
        /\ last' = Call("get_default_model", [engine |-> engine],
                        Return(get_default_model(engine)))
        /\ UNCHANGED CUSTOM_CONFIGS

ListEngines ==
    /\ last' = Call("list_engines", [none |-> TRUE], Return(list_engines))
    /\ UNCHANGED CUSTOM_CONFIGS

ListCustom ==
    /\ last' = Call("list_custom_configs", [none |-> TRUE], Return(list_custom_configs))
    /\ UNCHANGED CUSTOM_CONFIGS

RegisterSimilar ==
    \E model_id \in SimilarRegisterIds, config \in SimilarConfigs :
        register_config(model_id, config, FALSE)

FindSimilarWide ==
    \E model_id \in SimilarQueryIds, engine \in EngineArgs, limit \in WideLimitArgs :
        /\ last' = Call("find_similar_models",
                        [model_id |-> model_id, engine |-> engine, limit |-> limit],
                        Return(find_similar_models(model_id, engine, limit)))
        /\ UNCHANGED CUSTOM_CONFIGS

Next ==
    \/ Register
    \/ Get
    \/ FindSimilar
    \/ Validate

Spec ==
    Init /\ [][Next]_vars

\* the query layer over the same registry
NextQuery ==
    \/ Register
    \/ List
    \/ Find

SpecQuery ==
    Init /\ [][NextQuery]_vars

\* the lookup, list and find operations over the same registry
NextLookup ==
    \/ Register
    \/ Get
    \/ List
    \/ Find
    \/ GetDefault
    \/ ListEngines
    \/ ListCustom
    \/ FindSimilar

SpecLookup ==
    Init /\ [][NextLookup]_vars

\* the call of the documentation example: validate_model("minimax-m2")
DocExampleIds ==
    {M_minimax_m2}

ValidateDocExample ==
    \E model_id \in DocExampleIds, engine \in EngineArgs :
        /\ last' = Call("validate_model", [model_id |-> model_id, engine |-> engine],
                        validate_model(model_id, engine))
        /\ UNCHANGED CUSTOM_CONFIGS

NextDoc ==
    \/ Register
    \/ ValidateDocExample

SpecDoc ==
    Init /\ [][NextDoc]_vars

\* the engines that configure a default model
DefaultedEngines ==
    {i \in 1..Len(ENGINE_CONFIGS) :
        GetOr(ENGINE_CONFIGS[i].value, "default_model", None) # None}

\* validate_model(get_default_model(engine), engine=engine)
ValidateDefault ==
    \E i \in DefaultedEngines :
        LET engine == ENGINE_CONFIGS[i].key
            model_id == get_default_model(engine)
        IN  /\ last' = Call("validate_model", [model_id |-> model_id, engine |-> engine],
                            validate_model(model_id, engine))
            /\ UNCHANGED CUSTOM_CONFIGS

NextDefault ==
    \/ Register
    \/ ValidateDefault

SpecDefault ==
    Init /\ [][NextDefault]_vars

\* an engine id and its alias as the engine argument of the other operations
AliasEngineArgs ==
    {"claude", "claude-code"}

AliasQueryIds ==
    {M_claude_sonnet_4_20250514, Q_XYZ}

ListAlias ==
    \E engine \in AliasEngineArgs :
        /\ last' = Call("list_configs", [engine |-> engine], list_configs_call(engine))
        /\ UNCHANGED CUSTOM_CONFIGS

FindAlias ==
    \E engine \in AliasEngineArgs :
        LET c == [NoCriteria EXCEPT !.engine = PyStr(engine)]
        IN  /\ last' = Call("find_configs", c,
                            Return(find_configs(c.cost, c.speed, c.quality,
                                                c.best_for, c.free_tier, c.engine)))
            /\ UNCHANGED CUSTOM_CONFIGS

FindSimilarAlias ==
    \E model_id \in AliasQueryIds, engine \in AliasEngineArgs :
        /\ last' = Call("find_similar_models",
                        [model_id |-> model_id, engine |-> engine, limit |-> DefaultLimit],
                        Return(find_similar_models(model_id, engine, DefaultLimit)))
        /\ UNCHANGED CUSTOM_CONFIGS

ValidateAlias ==
    \E model_id \in AliasQueryIds, engine \in AliasEngineArgs :
        /\ last' = Call("validate_model", [model_id |-> model_id, engine |-> engine],
                        validate_model(model_id, engine))
        /\ UNCHANGED CUSTOM_CONFIGS

NextAlias ==
    \/ Register
    \/ ListAlias
    \/ FindAlias
    \/ FindSimilarAlias
    \/ ValidateAlias

SpecAlias ==
    Init /\ [][NextAlias]_vars

\* arguments of get_model_suggestions: no id, the empty id, a mistyped id;
\* a limit inside the built-in table and one beyond both tables
SuggestIdArgs ==
    {None, <<>>, Q_minimax_m3}

SuggestLimitArgs ==
    {2, 100}

Suggest ==
    \E model_id \in SuggestIdArgs, engine \in EngineArgs, limit \in SuggestLimitArgs :
        /\ last' = Call("get_model_suggestions",
                        [model_id |-> model_id, engine |-> engine, limit |-> limit],
                        get_model_suggestions(model_id, engine, limit))
        /\ UNCHANGED CUSTOM_CONFIGS

NextSuggest ==
    \/ Register
    \/ Suggest

SpecSuggest ==
    Init /\ [][NextSuggest]_vars

\* every operation of the module but get_model_suggestions
NextAll ==
    \/ Register
    \/ Get
    \/ List
    \/ Find
    \/ GetDefault
    \/ ListEngines
    \/ ListCustom
    \/ FindSimilar
    \/ Validate

SpecAll ==
    Init /\ [][NextAll]_vars

\* the suggestion layer with case variants and every kind of limit
NextSimilar ==
    \/ RegisterSimilar
    \/ FindSimilarWide

SpecSimilar ==
    Init /\ [][NextSimilar]_vars

-----------------------------------------------------------------------------
(* Vocabulary of the properties                                            *)

\* model_id is a key of the built-in or of the custom table
Present(model_id) ==
    HasKey(MODEL_CONFIGS, model_id) \/ HasKey(CUSTOM_CONFIGS, model_id)

IsReturn(o) ==
    o.outcome = "return"

IsEngineMismatch(o) ==
    /\ o.outcome = "raise"
    /\ o.exc = "ValueError"
    /\ o.msg.text = "exists but is for engine"

IsNotFoundWithSuggestions(o) ==
    /\ o.outcome = "raise"
    /\ o.exc = "ValueError"
    /\ o.msg.text = "not found. Did you mean one of these?"

IsNotFound(o) ==
    /\ o.outcome = "raise"
    /\ o.exc = "ValueError"
    /\ o.msg.text = "not found. List available models"

\* the records stored under model_id, annotated with it
StoredRecords(model_id) ==
    {WithId(MODEL_CONFIGS[i].value, model_id) :
        i \in {j \in 1..Len(MODEL_CONFIGS) : MODEL_CONFIGS[j].key = model_id}}
    \cup
    {WithId(CUSTOM_CONFIGS[i].value, model_id) :
        i \in {j \in 1..Len(CUSTOM_CONFIGS) : CUSTOM_CONFIGS[j].key = model_id}}

-----------------------------------------------------------------------------
(* C1: validate_model returns a record only for an id present in the       *)
(* built-in or custom table, and then a stored record of that id; for an   *)
(* id absent from both tables it fails with a not-found error and never    *)
(* returns a fabricated or default record.                                 *)

C1_ValidateNeverFabricates ==
    last.op = "validate_model" =>
        /\ IsReturn(last.result) =>
              /\ Present(last.args.model_id)
              /\ last.result.value \in StoredRecords(last.args.model_id)
        /\ ~Present(last.args.model_id) =>
              \/ IsNotFound(last.result)
              \/ IsNotFoundWithSuggestions(last.result)

\* validate_model fails on an absent id after registrations were made
C1_Witness ==
    /\ last.op = "validate_model"
    /\ CUSTOM_CONFIGS # <<>>
    /\ ~Present(last.args.model_id)
    /\ last.result.outcome = "raise"

-----------------------------------------------------------------------------
(* C2: every call of validate_model ends by returning the record, or with  *)
(* an EngineMismatch error, or with a NotFound / NotFoundWithSuggestions   *)
(* error, and in no other kind of failure, also when custom records were   *)
(* registered with a partial set of fields.                                *)

C2_ThreeOutcomes ==
    last.op = "validate_model" =>
        \/ IsReturn(last.result)
        \/ IsEngineMismatch(last.result)
        \/ IsNotFound(last.result)
        \/ IsNotFoundWithSuggestions(last.result)

-----------------------------------------------------------------------------
(* C3: register_config without override returns False and stores nothing  *)
(* whenever the id already exists in the built-in or in the custom table.  *)

C3_RegisterRefusesExisting ==
    [][ ( /\ last'.op = "register_config"
          /\ ~last'.args.override
          /\ Present(last'.args.model_id) )
        => ( /\ last'.result = Return(FALSE)
             /\ CUSTOM_CONFIGS' = CUSTOM_CONFIGS ) ]_vars

-----------------------------------------------------------------------------
(* C4: every candidate returned by find_similar_models satisfies one of    *)
(* the three match rules against the query: (a) one is a substring of the  *)
(* other, case-insensitively; (b) only when len(q) > 3, the candidate      *)
(* starts with q or q starts with the candidate's first len(q) div 2       *)
(* characters; (c) they share a leading run of at least 5 characters.      *)

RuleA(q, c) ==
    contains(q, c) \/ contains(c, q)

RuleB(q, c) ==
    Len(q) > 3 /\ (startswith(c, q) \/ startswith(q, SliceTo(c, Len(q) \div 2)))

RuleC(q, c) ==
    \E n \in 5..Min(Len(q), Len(c)) : SubSeq(q, 1, n) = SubSeq(c, 1, n)

C4_CandidatesSatisfyARule ==
    last.op = "find_similar_models" =>
        \A i \in 1..Len(last.result.value) :
            LET q == lower(last.args.model_id)
                c == lower(last.result.value[i].id)
            IN  RuleA(q, c) \/ RuleB(q, c) \/ RuleC(q, c)

-----------------------------------------------------------------------------
(* C5: validate_model of an id that is not found fails with                *)
(* NotFoundWithSuggestions exactly when find_similar_models(id, engine) is *)
(* non-empty, listing id, display name, engine and cost of every entry of  *)
(* that result in the same order, and with the generic NotFound error when *)
(* it is empty.                                                            *)

C5_NotFoundListsSimilar ==
    (last.op = "validate_model" /\ ~Present(last.args.model_id)) =>
        LET sim == find_similar_models(last.args.model_id, last.args.engine, DefaultLimit)
        IN  /\ IsNotFoundWithSuggestions(last.result) <=> sim # <<>>
            /\ sim # <<>> =>
                  last.result.msg.suggestions =
                      [i \in 1..Len(sim) |->
                          [id |-> sim[i].id, full_name |-> sim[i].full_name,
                           engine |-> sim[i].engine, cost |-> sim[i].cost]]
            /\ sim = <<>> => IsNotFound(last.result)

\* an engine-constrained validate_model listed several suggestions, the
\* engine keeping some matching candidate out
C5_Witness ==
    /\ last.op = "validate_model"
    /\ ~Present(last.args.model_id)
    /\ Truthy(last.args.engine)
    /\ IsNotFoundWithSuggestions(last.result)
    /\ Len(last.result.msg.suggestions) >= 2
    /\ Len(last.result.msg.suggestions)
         < Len(find_similar_models(last.args.model_id, None, DefaultLimit))

-----------------------------------------------------------------------------
(* C6: validate_model of an id that is found, with an engine constraint    *)
(* that differs from the record's engine, fails with an EngineMismatch     *)
(* error naming the record's engine and the requested engine.              *)

C6_EngineMismatchNamesBoth ==
    ( /\ last.op = "validate_model"
      /\ Present(last.args.model_id)
      /\ Truthy(last.args.engine)
      /\ GetOr(get_config(last.args.model_id), "engine", None) # last.args.engine )
    => ( /\ IsEngineMismatch(last.result)
         /\ last.result.msg.actual = GetOr(get_config(last.args.model_id), "engine", None)
         /\ last.result.msg.requested = last.args.engine )

-----------------------------------------------------------------------------
(* C7: register_config(id, rec) followed by register_config(id, rec2,      *)
(* override=True) makes the second record win, for built-in and custom     *)
(* ids: the second call returns True and get_config(id) then returns       *)
(* rec2's fields.                                                          *)

C7_OverrideWins ==
    [][ ( /\ last.op = "register_config"
          /\ ~last.args.override
          /\ last'.op = "register_config"
          /\ last'.args.model_id = last.args.model_id
          /\ last'.args.override )
        => ( /\ last'.result = Return(TRUE)
             /\ get_config(last.args.model_id)'
                  = WithId(full_config(last'.args.config), last'.args.model_id) ) ]_vars

-----------------------------------------------------------------------------
(* C8: register_config(id, rec) followed by register_config(id, rec2)      *)
(* without override leaves the first record unchanged, for every id: the   *)
(* second call returns False, the custom registry is the same before and   *)
(* after it, and get_config(id) still returns the fields derived from rec. *)

C8_DuplicateLeavesFirst ==
    [][ ( /\ last.op = "register_config"
          /\ ~last.args.override
          /\ last.result = Return(TRUE)
          /\ last'.op = "register_config"
          /\ last'.args.model_id = last.args.model_id
          /\ ~last'.args.override )
        => ( /\ last'.result = Return(FALSE)
             /\ CUSTOM_CONFIGS' = CUSTOM_CONFIGS
             /\ get_config(last.args.model_id)'
                  = WithId(full_config(last.args.config), last.args.model_id) ) ]_vars

-----------------------------------------------------------------------------
(* C9: list_configs (with or without an engine) and find_configs never     *)
(* return two records carrying the same id.                                *)

C9_IdsUniqueAtRead ==
    last.op \in {"list_configs", "find_configs"} =>
        \A i, j \in 1..Len(last.result.value) :
            last.result.value[i].id = last.result.value[j].id => i = j

-----------------------------------------------------------------------------
(* C10: every record returned by find_configs satisfies each supplied      *)
(* criterion, a single value or a list, the empty list included: its value *)
(* is one of the acceptable values; for best_for one requested tag is in   *)
(* the record's tags; for free_tier the booleans are equal.                *)

\* the acceptable values of a supplied criterion
Acceptable(criterion) ==
    IF criterion.type = "str" THEN {criterion.str}
    ELSE {criterion.items[i] : i \in 1..Len(criterion.items)}

\* the record satisfies the criterion supplied on key k
SatisfiesValue(record, k, criterion) ==
    criterion # PyNone => (k \in DOMAIN record /\ record[k] \in Acceptable(criterion))

C10_FindSatisfiesEveryCriterion ==
    last.op = "find_configs" =>
        \A i \in 1..Len(last.result.value) :
            LET record == last.result.value[i]
            IN  /\ SatisfiesValue(record, "cost", last.args.cost)
                /\ SatisfiesValue(record, "speed", last.args.speed)
                /\ SatisfiesValue(record, "quality", last.args.quality)
                /\ SatisfiesValue(record, "engine", last.args.engine)
                /\ last.args.best_for # PyNone =>
                      \E t \in Acceptable(last.args.best_for) :
                          InList(t, GetOr(record, "best_for", <<>>))
                /\ last.args.free_tier # PyNone =>
                      ("free_tier" \in DOMAIN record
                       /\ record["free_tier"] = last.args.free_tier.bool)

-----------------------------------------------------------------------------
(* C11: find_configs with no criteria returns the full table: exactly the  *)
(* records of the built-in and custom tables, the same records that        *)
(* list_configs() returns, each annotated with its id.                     *)

\* the set of the elements of a list
Elements(l) ==
    {l[i] : i \in 1..Len(l)}

C11_FindAllIsFullTable ==
    (last.op = "find_configs" /\ last.args = NoCriteria) =>
        /\ Len(last.result.value) = Len(list_configs(None))
        /\ Elements(last.result.value) = Elements(list_configs(None))
        /\ Elements(last.result.value) =
              Elements(Annotated(MODEL_CONFIGS)) \cup Elements(Annotated(CUSTOM_CONFIGS))

-----------------------------------------------------------------------------
(* C12: after a successful register_config(id, record) the stored custom   *)
(* record, as list_custom_configs() and (for an id that is not built-in)   *)
(* get_config(id) show it, carries every field the caller supplied         *)
(* unchanged and the documented default for each optional field omitted:   *)
(* cost medium, speed medium, quality good, best_for empty, free_tier      *)
(* false, cost_per_mtok input 0 and output 0, notes empty.                 *)

\* field k of stored is the caller's if supplied and otherwise dflt
CarriesField(stored, supplied, k, dflt) ==
    /\ k \in DOMAIN stored
    /\ stored[k] = (IF k \in DOMAIN supplied THEN supplied[k] ELSE dflt)

C12_RegisterBackfillsDefaults ==
    (last.op = "register_config" /\ last.result = Return(TRUE)) =>
        /\ HasKey(CUSTOM_CONFIGS, last.args.model_id)
        /\ LET stored == Lookup(CUSTOM_CONFIGS, last.args.model_id)
               supplied == last.args.config
           IN  /\ \A k \in DOMAIN supplied : k \in DOMAIN stored /\ stored[k] = supplied[k]
               /\ CarriesField(stored, supplied, "cost", "medium")
               /\ CarriesField(stored, supplied, "speed", "medium")
               /\ CarriesField(stored, supplied, "quality", "good")
               /\ CarriesField(stored, supplied, "best_for", <<>>)
               /\ CarriesField(stored, supplied, "free_tier", FALSE)
               /\ CarriesField(stored, supplied, "cost_per_mtok", [input |-> 0, output |-> 0])
               /\ CarriesField(stored, supplied, "notes", "")
               /\ \E i \in 1..Len(list_custom_configs) :
                     list_custom_configs[i] = WithId(stored, last.args.model_id)
               /\ ~HasKey(MODEL_CONFIGS, last.args.model_id) =>
                     get_config(last.args.model_id) = WithId(stored, last.args.model_id)

\* a record supplying some optional fields and omitting others was stored
\* under an id that is not built-in
C12_Witness ==
    /\ last.op = "register_config"
    /\ last.result = Return(TRUE)
    /\ ~HasKey(MODEL_CONFIGS, last.args.model_id)
    /\ "cost" \in DOMAIN last.args.config
    /\ "notes" \notin DOMAIN last.args.config
    /\ Lookup(CUSTOM_CONFIGS, last.args.model_id)["cost"] # "medium"

-----------------------------------------------------------------------------
(* C13: every record returned by list_configs, list_custom_configs or      *)
(* get_config has the full schema, also when the caller registered a       *)
(* partial record: engine, model, full_name, context_window, cost, speed,  *)
(* quality, best_for, free_tier, cost_per_mtok and notes.                  *)

SchemaFields ==
    {"engine", "model", "full_name", "context_window", "cost", "speed",
     "quality", "best_for", "free_tier", "cost_per_mtok", "notes"}

C13_StoredRecordsHaveFullSchema ==
    /\ (last.op \in {"list_configs", "list_custom_configs"} /\ IsReturn(last.result)) =>
          \A i \in 1..Len(last.result.value) :
              SchemaFields \subseteq DOMAIN last.result.value[i]
    /\ (last.op = "get_config" /\ last.result.value # NoneConfig) =>
          SchemaFields \subseteq DOMAIN last.result.value

-----------------------------------------------------------------------------
(* C14: get_config checks the built-in table first and the custom table    *)
(* second: for a built-in id it returns the built-in record's fields with  *)
(* that id, whatever was registered, with or without override; for an id   *)
(* in neither table it returns None.                                       *)

C14_GetBuiltinFirst ==
    last.op = "get_config" =>
        /\ HasKey(MODEL_CONFIGS, last.args.model_id) =>
              /\ last.result.value # NoneConfig
              /\ last.result.value["id"] = last.args.model_id
              /\ \A k \in DOMAIN Lookup(MODEL_CONFIGS, last.args.model_id) :
                    /\ k \in DOMAIN last.result.value
                    /\ last.result.value[k] = Lookup(MODEL_CONFIGS, last.args.model_id)[k]
              /\ DOMAIN last.result.value =
                    DOMAIN Lookup(MODEL_CONFIGS, last.args.model_id) \cup {"id"}
        /\ ~Present(last.args.model_id) => last.result.value = NoneConfig

\* get_config of a built-in id under which a custom record is registered
C14_Witness ==
    /\ last.op = "get_config"
    /\ HasKey(MODEL_CONFIGS, last.args.model_id)
    /\ HasKey(CUSTOM_CONFIGS, last.args.model_id)
    /\ last.result.value["model"] # Lookup(CUSTOM_CONFIGS, last.args.model_id)["model"]

-----------------------------------------------------------------------------
(* C15: for every id that get_config finds, built-in or custom,            *)
(* validate_model(id) with no engine argument succeeds and returns the     *)
(* same data as get_config(id), the id annotation included.                *)

C15_ValidateWithoutEngineIsGet ==
    ( /\ last.op = "validate_model"
      /\ last.args.engine = None
      /\ get_config(last.args.model_id) # NoneConfig )
    => ( /\ IsReturn(last.result)
         /\ last.result.value = get_config(last.args.model_id)
         /\ last.result.value["id"] = last.args.model_id )

\* validate_model without engine returned a custom-registered record
C15_Witness ==
    /\ last.op = "validate_model"
    /\ last.args.engine = None
    /\ ~HasKey(MODEL_CONFIGS, last.args.model_id)
    /\ HasKey(CUSTOM_CONFIGS, last.args.model_id)
    /\ IsReturn(last.result)
    /\ "engine" \in DOMAIN last.result.value

-----------------------------------------------------------------------------
(* C16: find_similar_models(q, engine, limit), for a limit that is not     *)
(* negative, returns exactly the first `limit` matching candidates in the  *)
(* registry's natural order: the built-in ids in table order, then the     *)
(* custom-only ids in insertion order, keeping those that pass the engine  *)
(* filter and satisfy one of the match rules (a), (b), (c).                *)

\* the ids in natural order: built-in ids, then custom-only ids
NaturalOrder ==
    [i \in 1..Len(MODEL_CONFIGS) |-> MODEL_CONFIGS[i].key]
    \o
    [i \in 1..Len(SelectSeq(CUSTOM_CONFIGS, LAMBDA it : ~HasKey(MODEL_CONFIGS, it.key))) |->
        SelectSeq(CUSTOM_CONFIGS, LAMBDA it : ~HasKey(MODEL_CONFIGS, it.key))[i].key]

\* the record a candidate id stands for: the custom one if registered
CandidateRecord(mid) ==
    IF HasKey(CUSTOM_CONFIGS, mid) THEN Lookup(CUSTOM_CONFIGS, mid)
    ELSE Lookup(MODEL_CONFIGS, mid)

\* the candidate passes the engine filter and satisfies a match rule
IsMatchingCandidate(q, engine, mid) ==
    /\ engine # None => GetOr(CandidateRecord(mid), "engine", None) = engine
    /\ \/ RuleA(lower(q), lower(mid))
       \/ RuleB(lower(q), lower(mid))
       \/ RuleC(lower(q), lower(mid))

C16_FirstLimitInNaturalOrder ==
    (last.op = "find_similar_models" /\ last.args.limit >= 0) =>
        LET matching == SelectSeq(NaturalOrder,
                            LAMBDA mid : IsMatchingCandidate(last.args.model_id,
                                                             last.args.engine, mid))
            returned == [i \in 1..Len(last.result.value) |-> last.result.value[i].id]
        IN  returned = SubSeq(matching, 1, Min(last.args.limit, Len(matching)))

-----------------------------------------------------------------------------
(* C17: for every query, engine and limit value, find_similar_models       *)
(* returns at most `limit` entries.                                        *)

C17_AtMostLimit ==
    last.op = "find_similar_models" =>
        Len(last.result.value) <= last.args.limit

-----------------------------------------------------------------------------
(* C18: get_config, list_configs, find_configs, get_default_model,         *)
(* list_engines, list_custom_configs and find_similar_models never fail,   *)
(* partial custom records included: every call returns a value, and an     *)
(* unknown id or engine is signalled by None, not by an error.             *)

LookupOps ==
    {"get_config", "list_configs", "find_configs", "get_default_model",
     "list_engines", "list_custom_configs", "find_similar_models"}

C18_LookupsNeverFail ==
    last.op \in LookupOps =>
        /\ IsReturn(last.result)
        /\ (last.op = "get_config" /\ ~Present(last.args.model_id)) =>
              last.result.value = NoneConfig
        /\ ( /\ last.op = "get_default_model"
             /\ last.args.engine # "claude-code"
             /\ ~HasKey(ENGINE_CONFIGS, last.args.engine) ) =>
              last.result.value = None

\* list_configs with an engine filter returned while the registry holds a
\* custom record without engine
C18_Witness ==
    /\ last.op = "list_configs"
    /\ last.args.engine # None
    /\ \E i \in 1..Len(CUSTOM_CONFIGS) : "engine" \notin DOMAIN CUSTOM_CONFIGS[i].value
    /\ IsReturn(last.result)

-----------------------------------------------------------------------------
(* C19: when find_similar_models is given an engine (a non-empty engine    *)
(* name), candidates of any other engine are dropped before matching and   *)
(* before truncation: every returned summary has that engine, and the      *)
(* result is the first `limit` of the unfiltered matches that have it.     *)
(* The same holds for the suggestions that validate_model lists in its     *)
(* "not found. Did you mean" error.                                        *)

\* the matches of model_id among all engines, restricted to engine
OfEngine(model_id, engine) ==
    SelectSeq(SimilarAll(model_id, None), LAMBDA m : m.engine = engine)

-----------------------------------------------------------------------------
(* C20: find_similar_models matches without regard to letter case: two     *)
(* queries that differ only in letter case, with the same engine and       *)
(* limit, get the same list of summaries in the same order; and two        *)
(* candidate ids that differ only in letter case, with the same engine,    *)
(* are matched alike.                                                      *)

\* s with every uppercase letter replaced by its lowercase letter
FoldCase(s) ==
    [i \in 1..Len(s) |-> IF s[i] \in DOMAIN LowerMap THEN LowerMap[s[i]] ELSE s[i]]

\* the ids of a list of summaries, in order
Ids(similar) ==
    [i \in 1..Len(similar) |-> similar[i].id]

C20_CaseInsensitive ==
    last.op = "find_similar_models" =>
        LET all_configs == DictUpdate(MODEL_CONFIGS, CUSTOM_CONFIGS)
            matched == Elements(Ids(SimilarAll(last.args.model_id, last.args.engine)))
        IN  /\ \A q \in SimilarQueryIds :
                  FoldCase(q) = FoldCase(last.args.model_id) =>
                      Ids(find_similar_models(q, last.args.engine, last.args.limit))
                          = Ids(last.result.value)
            /\ \A i, j \in 1..Len(all_configs) :
                  ( /\ FoldCase(all_configs[i].key) = FoldCase(all_configs[j].key)
                    /\ GetOr(all_configs[i].value, "engine", None)
                          = GetOr(all_configs[j].value, "engine", None) )
                  => (all_configs[i].key \in matched <=> all_configs[j].key \in matched)

\* a query with uppercase letters got the two custom ids that differ only
\* in letter case, both by the match on their lowercase form
C20_Witness ==
    /\ last.op = "find_similar_models"
    /\ \E q \in SimilarQueryIds :
          q # last.args.model_id /\ FoldCase(q) = FoldCase(last.args.model_id)
    /\ \E i, j \in 1..Len(last.result.value) :
          /\ last.result.value[i].id = Q_XYZ
          /\ last.result.value[j].id = Q_xyz

-----------------------------------------------------------------------------
(* C21: get_default_model resolves an alias to its engine before the       *)
(* lookup: for an alias listed in an engine record's aliases it returns    *)
(* that engine's default_model; for an engine id it returns that engine's  *)
(* default_model; for an id that is neither it returns None.               *)

\* the aliases listed in the i-th engine record
AliasesOf(i) ==
    Elements(GetOr(ENGINE_CONFIGS[i].value, "aliases", <<>>))

\* equality of two Optional[str] values: both None, or the same id
SameOptional(a, b) ==
    IF a = None THEN b = None
    ELSE IF b = None THEN FALSE
    ELSE a = b

\* what the engine table says get_default_model(engine) is
ConfiguredDefault(engine, v) ==
    /\ \A i \in 1..Len(ENGINE_CONFIGS) :
          (engine = ENGINE_CONFIGS[i].key \/ engine \in AliasesOf(i)) =>
              SameOptional(v, GetOr(ENGINE_CONFIGS[i].value, "default_model", None))
    /\ (\A i \in 1..Len(ENGINE_CONFIGS) :
          engine # ENGINE_CONFIGS[i].key /\ engine \notin AliasesOf(i)) =>
              SameOptional(v, None)

C21_DefaultResolvesAliases ==
    /\ last.op = "get_default_model" =>
          ConfiguredDefault(last.args.engine, last.result.value)
    /\ \A i \in 1..Len(ENGINE_CONFIGS) :
          \A e \in {ENGINE_CONFIGS[i].key} \cup AliasesOf(i) :
              ConfiguredDefault(e, get_default_model(e))

\* get_default_model was asked for an alias and returned a model id
C21_Witness ==
    /\ last.op = "get_default_model"
    /\ \E i \in 1..Len(ENGINE_CONFIGS) :
          /\ last.args.engine \in AliasesOf(i)
          /\ last.args.engine # ENGINE_CONFIGS[i].key
    /\ ~SameOptional(last.result.value, None)

-----------------------------------------------------------------------------
(* C22: list_configs(engine) returns the records of the built-in and of    *)
(* the custom table, each annotated with its id: without an engine all of  *)
(* them, with an engine exactly those whose engine equals it (every        *)
(* returned record has that engine, no record with that engine is left     *)
(* out, and nothing is returned more often than it is stored).             *)

\* the entries of a table that list_configs(engine) has to return
Wanted(table, engine) ==
    {i \in 1..Len(table) :
        engine = None \/ ("engine" \in DOMAIN table[i].value /\ table[i].value["engine"] = engine)}

C22_ListIsExactlyTheEngine ==
    last.op = "list_configs" =>
        /\ IsReturn(last.result)
        /\ \A k \in 1..Len(last.result.value) :
              /\ "id" \in DOMAIN last.result.value[k]
              /\ last.args.engine # None =>
                    /\ "engine" \in DOMAIN last.result.value[k]
                    /\ last.result.value[k]["engine"] = last.args.engine
              /\ \/ \E i \in Wanted(MODEL_CONFIGS, last.args.engine) :
                       last.result.value[k] = WithId(MODEL_CONFIGS[i].value, MODEL_CONFIGS[i].key)
                 \/ \E i \in Wanted(CUSTOM_CONFIGS, last.args.engine) :
                       last.result.value[k] = WithId(CUSTOM_CONFIGS[i].value, CUSTOM_CONFIGS[i].key)
        /\ \A i \in Wanted(MODEL_CONFIGS, last.args.engine) :
              WithId(MODEL_CONFIGS[i].value, MODEL_CONFIGS[i].key) \in Elements(last.result.value)
        /\ \A i \in Wanted(CUSTOM_CONFIGS, last.args.engine) :
              WithId(CUSTOM_CONFIGS[i].value, CUSTOM_CONFIGS[i].key) \in Elements(last.result.value)
        /\ Len(last.result.value) =
              Cardinality(Wanted(MODEL_CONFIGS, last.args.engine))
                + Cardinality(Wanted(CUSTOM_CONFIGS, last.args.engine))

\* list_configs for an engine returned a custom record of that engine and
\* left out a custom record of another or of no engine
C22_Witness ==
    /\ last.op = "list_configs"
    /\ last.args.engine # None
    /\ Wanted(CUSTOM_CONFIGS, last.args.engine) # {}
    /\ Wanted(CUSTOM_CONFIGS, last.args.engine) # 1..Len(CUSTOM_CONFIGS)
    /\ Wanted(MODEL_CONFIGS, last.args.engine) # {}
    /\ IsReturn(last.result)

-----------------------------------------------------------------------------
(* C23: the custom registry is the only structure that changes and it only *)
(* grows: get_config, list_configs, find_configs, get_default_model,       *)
(* list_engines, list_custom_configs, find_similar_models and              *)
(* validate_model leave it as it is; register_config changes at most the   *)
(* entry of its own id; no operation removes an id from it.  (The built-in *)
(* model and engine tables are constants of the module: no statement of    *)
(* configs.py assigns into them.)                                          *)

\* the ids of a dict
Keys(d) ==
    {d[i].key : i \in 1..Len(d)}

C23_RegistryOnlyGrows ==
    [][ /\ last'.op # "register_config" => CUSTOM_CONFIGS' = CUSTOM_CONFIGS
        /\ last'.op = "register_config" =>
              /\ Keys(CUSTOM_CONFIGS') \subseteq Keys(CUSTOM_CONFIGS) \cup {last'.args.model_id}
              /\ \A i \in 1..Len(CUSTOM_CONFIGS) :
                    CUSTOM_CONFIGS[i].key # last'.args.model_id =>
                        /\ i <= Len(CUSTOM_CONFIGS')
                        /\ CUSTOM_CONFIGS'[i] = CUSTOM_CONFIGS[i]
        /\ Keys(CUSTOM_CONFIGS) \subseteq Keys(CUSTOM_CONFIGS') ]_vars

\* register_config has replaced the record of the first custom id while a
\* second custom id was stored
C23_Witness ==
    /\ last.op = "register_config"
    /\ last.result = Return(TRUE)
    /\ Len(CUSTOM_CONFIGS) >= 2
    /\ CUSTOM_CONFIGS[1].key = last.args.model_id
    /\ CUSTOM_CONFIGS[1].value = full_config(last.args.config)

-----------------------------------------------------------------------------
(* C24: validate_model("minimax-m2") on the initial registry raises the    *)
(* ValueError "Model 'minimax-m2' not found. Did you mean one of these?"   *)
(* whose suggestions include minimax-m2.1 and minimax-m2-api.              *)

\* "minimax-m2-api"
Q_minimax_m2_api ==
    <<"m","i","n","i","m","a","x","-","m","2","-","a","p","i">>

C24_DocExampleRaises ==
    ( /\ last.op = "validate_model"
      /\ last.args.model_id = M_minimax_m2
      /\ last.args.engine = None
      /\ CUSTOM_CONFIGS = <<>> )
    => ( /\ IsNotFoundWithSuggestions(last.result)
         /\ \E i \in 1..Len(last.result.msg.suggestions) :
               last.result.msg.suggestions[i].id = M_minimax_m2_1
         /\ \E i \in 1..Len(last.result.msg.suggestions) :
               last.result.msg.suggestions[i].id = Q_minimax_m2_api )

-----------------------------------------------------------------------------
(* C25: every default_model of an engine that is not None is an id of the  *)
(* built-in model table, and whatever has been registered,                 *)
(* validate_model(default, engine=that engine) returns a record: the       *)
(* record of that id, with that engine.                                    *)

C25_DefaultsValidate ==
    /\ \A i \in DefaultedEngines :
          HasKey(MODEL_CONFIGS, ENGINE_CONFIGS[i].value["default_model"])
    /\ ( /\ last.op = "validate_model"
         /\ \E i \in DefaultedEngines :
               /\ ENGINE_CONFIGS[i].key = last.args.engine
               /\ ENGINE_CONFIGS[i].value["default_model"] = last.args.model_id )
       => ( /\ IsReturn(last.result)
            /\ last.result.value["id"] = last.args.model_id
            /\ last.result.value["engine"] = last.args.engine )

\* the default model of an engine was validated for it while a custom
\* record of another engine was registered under the same id
C25_Witness ==
    /\ last.op = "validate_model"
    /\ \E i \in DefaultedEngines :
          /\ ENGINE_CONFIGS[i].key = last.args.engine
          /\ ENGINE_CONFIGS[i].value["default_model"] = last.args.model_id
    /\ HasKey(CUSTOM_CONFIGS, last.args.model_id)
    /\ GetOr(Lookup(CUSTOM_CONFIGS, last.args.model_id), "engine", None) # last.args.engine
    /\ IsReturn(last.result)

-----------------------------------------------------------------------------
(* C26: an alias of an engine ("claude-code" for "claude") stands for the  *)
(* engine in every operation: validate_model(id, engine=alias) returns the *)
(* record of an id whose engine is that engine, and list_configs,          *)
(* find_configs and find_similar_models give with engine=alias what they   *)
(* give with the engine itself.                                            *)

\* a is listed as an alias of engine e
IsAliasOf(a, e) ==
    \E i \in 1..Len(ENGINE_CONFIGS) :
        ENGINE_CONFIGS[i].key = e /\ a # e /\ a \in AliasesOf(i)

C26_AliasesResolveEverywhere ==
    \A e \in {ENGINE_CONFIGS[i].key : i \in 1..Len(ENGINE_CONFIGS)} :
        /\ ( /\ last.op = "validate_model"
             /\ IsAliasOf(last.args.engine, e)
             /\ get_config(last.args.model_id) # NoneConfig
             /\ GetOr(get_config(last.args.model_id), "engine", None) = e )
           => last.result = Return(get_config(last.args.model_id))
        /\ (last.op = "list_configs" /\ IsAliasOf(last.args.engine, e))
           => last.result = list_configs_call(e)
        /\ ( /\ last.op = "find_configs"
             /\ last.args.engine # PyNone
             /\ last.args.engine.type = "str"
             /\ IsAliasOf(last.args.engine.str, e) )
           => last.result.value =
                 find_configs(last.args.cost, last.args.speed, last.args.quality,
                              last.args.best_for, last.args.free_tier, PyStr(e))
        /\ (last.op = "find_similar_models" /\ IsAliasOf(last.args.engine, e))
           => last.result.value =
                 find_similar_models(last.args.model_id, e, last.args.limit)

-----------------------------------------------------------------------------
(* C27: whatever has been registered, list_configs(engine=e) and           *)
(* find_configs(engine=e) agree for every engine e: they return the same   *)
(* set of ids, and for each id the same record.                            *)

\* the records of a list that carry the id
RecordsOf(l, id) ==
    {l[i] : i \in {j \in 1..Len(l) : l[j]["id"] = id}}

\* two lists of annotated records hold the same ids with the same records
SameIdsAndRecords(a, b) ==
    /\ {a[i]["id"] : i \in 1..Len(a)} = {b[i]["id"] : i \in 1..Len(b)}
    /\ \A i \in 1..Len(a) : RecordsOf(a, a[i]["id"]) = RecordsOf(b, a[i]["id"])

C27_ListAndFindAgree ==
    /\ (last.op = "list_configs" /\ last.args.engine # None) =>
          /\ IsReturn(last.result)
          /\ SameIdsAndRecords(last.result.value,
                 find_configs(PyNone, PyNone, PyNone, PyNone, PyNone,
                              PyStr(last.args.engine)))
    /\ ( /\ last.op = "find_configs"
         /\ last.args.engine # PyNone
         /\ last.args.engine.type = "str"
         /\ [last.args EXCEPT !.engine = PyNone] = NoCriteria ) =>
          SameIdsAndRecords(last.result.value, list_configs(last.args.engine.str))

-----------------------------------------------------------------------------
(* C28: whatever has been registered, every id that find_configs(engine=e) *)
(* or find_similar_models(q, engine=e) offers is accepted by               *)
(* validate_model(id, engine=e), which returns a record with the engine,   *)
(* cost, speed, quality and model string that the offer reported.          *)

\* validate_model(id, engine) returns a record showing the offered fields
ValidatesAs(id, engine, offered_engine, cost, speed, quality, model) ==
    LET v == validate_model(id, engine)
    IN  /\ IsReturn(v)
        /\ GetOr(v.value, "engine", None) = offered_engine
        /\ GetOr(v.value, "cost", "unknown") = cost
        /\ GetOr(v.value, "speed", "unknown") = speed
        /\ GetOr(v.value, "quality", "unknown") = quality
        /\ GetOr(v.value, "model", None) = model

C28_OffersValidate ==
    /\ ( /\ last.op = "find_configs"
         /\ (last.args.engine = PyNone \/ last.args.engine.type = "str") ) =>
          \A k \in 1..Len(last.result.value) :
              LET r == last.result.value[k]
              IN  ValidatesAs(r["id"],
                              IF last.args.engine = PyNone THEN None ELSE last.args.engine.str,
                              GetOr(r, "engine", None), GetOr(r, "cost", "unknown"),
                              GetOr(r, "speed", "unknown"), GetOr(r, "quality", "unknown"),
                              GetOr(r, "model", None))
    /\ last.op = "find_similar_models" =>
          \A k \in 1..Len(last.result.value) :
              LET m == last.result.value[k]
              IN  ValidatesAs(m.id, last.args.engine,
                              m.engine, m.cost, m.speed, m.quality, m.model)

-----------------------------------------------------------------------------
(* C29: get_model_suggestions(model_id, engine, limit) with a non-empty    *)
(* model_id returns exactly find_similar_models(model_id, engine, limit);  *)
(* with no or an empty model_id it returns, whatever has been registered,  *)
(* one summary (id, full_name, engine, cost, speed, quality) for each of   *)
(* the first `limit` records of list_configs(engine), in the same order,   *)
(* and does not fail.                                                      *)

C29_SuggestionsTwoModes ==
    last.op = "get_model_suggestions" =>
        IF TruthyId(last.args.model_id)
        THEN last.result = Return(find_similar_models(last.args.model_id,
                                      last.args.engine, last.args.limit))
        ELSE LET listed == list_configs(last.args.engine)
                 n == Min(last.args.limit, Len(listed))
             IN  /\ IsReturn(last.result)
                 /\ Len(last.result.value) = n
                 /\ \A k \in 1..n :
                       /\ last.result.value[k].id = listed[k]["id"]
                       /\ last.result.value[k].full_name
                             = GetOr(listed[k], "full_name", listed[k]["id"])
                       /\ last.result.value[k].engine = GetOr(listed[k], "engine", None)
                       /\ last.result.value[k].cost = GetOr(listed[k], "cost", "unknown")
                       /\ last.result.value[k].speed = GetOr(listed[k], "speed", "unknown")
                       /\ last.result.value[k].quality = GetOr(listed[k], "quality", "unknown")

====
